---------------------------- MODULE Spec2Model ----------------------------
(***************************************************************************)
(* Half-edge construction and topology validation of Gravel                *)
(* (src/src/HalfEdge.cpp), together with the polygon-mesh source it        *)
(* consumes (src/include/loaders/ObjLoader.h).                             *)
(*                                                                         *)
(* Every std::vector of the program is a function over 0..n-1, so that the *)
(* indices of the model are the indices of the code.                       *)
(***************************************************************************)
EXTENDS Integers, Sequences, FiniteSets, TLC

VARIABLES
    src,            \* the NGonMesh handed to build (const reference)
    pc,             \* position of the call to build
    mesh,           \* build's local HalfEdgeMesh
    edgeMap,        \* build's local std::map<std::pair<int,int>,int>
    currentHE,      \* build's local counter of created half-edges
    heWrites,       \* the half-edge slots the face walk has written, in order
    boundaryEdges,  \* build's local boundary-edge counter
    verdict,        \* what validateTopology did on build's mesh
    returned,       \* the value build returned to its caller, or NoMesh
    thrown,         \* the exception that left build, or NoError
    recheck,        \* the verdict of a validation run after build returned
    round,          \* how many calls to build were completed before this one
    first,          \* the source and the outcome of the first completed call
    file,           \* the OBJ file given to ObjLoader::load: what is left of it
    loading         \* load's locals: its NGonMesh and faceVertexOffset

vars == <<src, pc, mesh, edgeMap, currentHE, heWrites, boundaryEdges,
          verdict, returned, thrown, recheck, round, first, file, loading>>

---------------------------------------------------------------------------
(* Bounds of the model. *)

MaxVerts == 3
MaxCount == 4
MaxHalfEdges == 6
MaxLines == 5
MaxTable == 4

(* Program constants. *)

\* a face needs at least three vertices (ObjLoader.cpp:77)
MinFaceVerts == 3
\* the "no half-edge" sentinel of heTwin and vertexEdges (HalfEdge.cpp:30, 45)
NoEdge == -1

---------------------------------------------------------------------------
(* Vectors. *)

Size(v) == Cardinality(DOMAIN v)

EmptyVec == [i \in {} |-> 0]

\* std::vector::resize(n, value) on an empty vector
Resize(n, value) == [i \in 0..(n - 1) |-> value]

RECURSIVE SumTo(_, _)
SumTo(f, n) == IF n <= 0 THEN 0 ELSE f[n - 1] + SumTo(f, n - 1)

---------------------------------------------------------------------------
(* The polygon mesh source: NGonMesh and NGonFace. *)

FaceCounts(fl) == [k \in DOMAIN fl |-> Size(fl[k])]

\* the running offset the loader keeps: the counts of the faces emitted before k
FaceOffset(fl, k) == SumTo(FaceCounts(fl), k)

\* the flattened buffer: the faces' vertex lists, one after the other
\* (the loader's push_back of every index of every emitted face)
RECURSIVE PushFaces(_, _)
PushFaces(fl, n) ==
    IF n <= 0 THEN <<>>
    ELSE PushFaces(fl, n - 1) \o [j \in 1..Size(fl[n - 1]) |-> fl[n - 1][j - 1]]

Flatten(fl) ==
    LET pushed == PushFaces(fl, Size(fl))
    IN [j \in 0..(Len(pushed) - 1) |-> pushed[j + 1]]

\* one face as the loader emits it from a line of plain vertex indices;
\* its normal, centroid and area are computed from the positions of its
\* vertices and stand here as the values of face k
NGonFace(fl, k) ==
    [vertexIndices |-> fl[k],
     normalIndices |-> EmptyVec,
     texCoordIndices |-> EmptyVec,
     count   |-> Size(fl[k]),
     offset  |-> FaceOffset(fl, k),
     normal  |-> [xyz |-> [normalOfFace |-> k], w |-> 0],
     center  |-> [xyz |-> [centroidOfFace |-> k], w |-> 1],
     area    |-> [areaOfFace |-> k]]

\* a source with nv vertices and the faces fl
NGonMesh(nv, fl) ==
    [positions |-> [i \in 0..(nv - 1) |-> [pos |-> i]],
     normals   |-> [i \in 0..(nv - 1) |-> [nrm |-> i]],
     texCoords |-> [i \in 0..(nv - 1) |-> [uv |-> i]],
     colors    |-> [i \in 0..(nv - 1) |-> [rgb |-> 1]],
     faces     |-> [k \in DOMAIN fl |-> NGonFace(fl, k)],
     faceVertexIndices |-> Flatten(fl),
     nbVertices |-> nv,
     nbFaces    |-> Size(fl)]

ZeroBased(s) == [k \in 0..(Len(s) - 1) |-> s[k + 1]]

\* the vertex counts of a list of faces: each at least MinFaceVerts, at
\* most MaxCount, and summing to at most budget
RECURSIVE CountSeqsWithin(_)
CountSeqsWithin(budget) ==
    {<<>>} \cup
    UNION {{<<c>> \o rest : rest \in CountSeqsWithin(budget - c)} :
              c \in {d \in MinFaceVerts..MaxCount : d <= budget}}

\* the faces with the counts cs whose vertex lists, one after the other,
\* are flat
FacesOf(cs, flat) ==
    LET counts == ZeroBased(cs)
    IN [k \in DOMAIN counts |->
           [i \in 0..(counts[k] - 1) |-> flat[SumTo(counts, k) + i]]]

\* sources outside the enumeration: two triangles over a shared edge, a
\* quad with a triangle on one side, a tetrahedron, a cube as in
\* assets/cube.obj (8 vertices, 6 quads), and two triangles back to back
\* next to a vertex that no face uses
QuadSplitFaces == ZeroBased(<<ZeroBased(<<0, 1, 2>>), ZeroBased(<<0, 2, 3>>)>>)

HouseFaces == ZeroBased(<<ZeroBased(<<0, 1, 2, 3>>), ZeroBased(<<3, 2, 4>>)>>)

TetrahedronFaces ==
    ZeroBased(<<ZeroBased(<<0, 1, 2>>), ZeroBased(<<0, 3, 1>>),
                ZeroBased(<<1, 3, 2>>), ZeroBased(<<0, 2, 3>>)>>)

CubeFaces ==
    ZeroBased(<<ZeroBased(<<0, 1, 2, 3>>), ZeroBased(<<7, 6, 5, 4>>),
                ZeroBased(<<0, 4, 5, 1>>), ZeroBased(<<1, 5, 6, 2>>),
                ZeroBased(<<2, 6, 7, 3>>), ZeroBased(<<3, 7, 4, 0>>)>>)

\* the same faces, each listed in the opposite winding order
Reversed(fl) ==
    [k \in DOMAIN fl |-> [i \in DOMAIN fl[k] |-> fl[k][Size(fl[k]) - 1 - i]]]

PillowFaces == ZeroBased(<<ZeroBased(<<0, 1, 2>>), ZeroBased(<<0, 2, 1>>)>>)

Cubes == {NGonMesh(8, CubeFaces), NGonMesh(8, Reversed(CubeFaces))}

\* three and four triangles around the edge 0-1: all along (0, 1); two
\* along and one against; one along and two against; two and two
FanFaces ==
    ZeroBased(<<ZeroBased(<<0, 1, 2>>), ZeroBased(<<0, 1, 3>>),
                ZeroBased(<<0, 1, 4>>)>>)

FinFaces ==
    ZeroBased(<<ZeroBased(<<0, 1, 2>>), ZeroBased(<<1, 0, 3>>),
                ZeroBased(<<0, 1, 4>>)>>)

LateFinFaces ==
    ZeroBased(<<ZeroBased(<<0, 1, 2>>), ZeroBased(<<1, 0, 3>>),
                ZeroBased(<<1, 0, 4>>)>>)

BookFaces ==
    ZeroBased(<<ZeroBased(<<0, 1, 2>>), ZeroBased(<<1, 0, 3>>),
                ZeroBased(<<0, 1, 4>>), ZeroBased(<<1, 0, 5>>)>>)

NonManifoldSources ==
    {NGonMesh(5, FanFaces), NGonMesh(5, FinFaces), NGonMesh(5, LateFinFaces),
     NGonMesh(6, BookFaces)}

NamedSources ==
    {NGonMesh(4, QuadSplitFaces), NGonMesh(5, HouseFaces),
     NGonMesh(4, TetrahedronFaces), NGonMesh(4, PillowFaces)}
    \cup Cubes \cup NonManifoldSources

\* the sources a call to build is given
IsSource(s) ==
    \/ \E nv \in 0..MaxVerts :
       \E cs \in CountSeqsWithin(MaxHalfEdges) :
       \E flat \in [0..(SumTo(ZeroBased(cs), Len(cs)) - 1) -> 0..(nv - 1)] :
          s = NGonMesh(nv, FacesOf(cs, flat))
    \/ s \in NamedSources


---------------------------------------------------------------------------
(* ObjLoader::load: one line of the file at a time. *)

\* std::vector::push_back
PushBack(v, x) == [i \in 0..Size(v) |-> IF i < Size(v) THEN v[i] ELSE x]

\* a default-constructed NGonMesh and faceVertexOffset = 0
LoadStart ==
    [mesh |-> [positions |-> EmptyVec, normals |-> EmptyVec,
               texCoords |-> EmptyVec, colors |-> EmptyVec,
               faces |-> EmptyVec, faceVertexIndices |-> EmptyVec,
               nbVertices |-> 0, nbFaces |-> 0],
     faceVertexOffset |-> 0]

NoLoad == [none |-> TRUE]

NoFile == [none |-> TRUE]

\* the defaults for attributes the file does not give
DefaultNormal == [nrm |-> <<0, 0, 1>>]
DefaultTexCoord == [uv |-> <<0, 0>>]
DefaultColor == [rgb |-> 1]

\* the vertex tokens of a face line: v, v/vt, v//vn or v/vt/vn, with 0 for
\* an index the token does not give
Token(v, vt, vn) == [v |-> v, vt |-> vt, vn |-> vn]

TokenFormats == {"v", "v/vt", "v//vn", "v/vt/vn"}

TokenOf(fmt, v) ==
    Token(v, IF fmt \in {"v/vt", "v/vt/vn"} THEN v ELSE 0,
             IF fmt \in {"v//vn", "v/vt/vn"} THEN v ELSE 0)

\* the lines a file can hold next, when np positions were read before and
\* the faces emitted before leave room for room more face vertices: up to
\* MaxVerts "v" lines, and face lines that refer to vertices the file has
\* given already
LinesAfter(np, room) ==
    {[prefix |-> px, tokens |-> <<>>] :
        px \in {"vn", "vt", "#"} \cup (IF np < MaxVerts THEN {"v"} ELSE {})} \cup
    UNION {{[prefix |-> "f",
             tokens |-> [j \in 1..n |-> TokenOf(fmt, vs[j])]] :
               vs \in [1..n -> 1..np], fmt \in TokenFormats} :
              n \in {c \in 0..MaxCount : c <= room}}

\* the indices a face line gives, converted to 0-based; an index that is
\* not given (0) is not pushed
RECURSIVE PushGiven(_, _, _)
PushGiven(tokens, field, n) ==
    IF n <= 0 THEN EmptyVec
    ELSE LET before == PushGiven(tokens, field, n - 1)
             idx == tokens[n][field]
         IN IF idx > 0 THEN PushBack(before, idx - 1) ELSE before

RECURSIVE PushAll(_, _, _)
PushAll(buffer, indices, n) ==
    IF n <= 0 THEN buffer
    ELSE PushBack(PushAll(buffer, indices, n - 1), indices[n - 1])

\* a plausible slip: the running offset advances before the size test
SkipShortFaceAdvancing(ld, n) == [ld EXCEPT !.faceVertexOffset = @ + n]

\* if (face.vertexIndices.size() < 3) continue;
SkipShortFace(ld, n) == ld

\* an "f" line
ReadFace(ld, tokens) ==
    LET vertexIndices == [i \in 0..(Len(tokens) - 1) |-> tokens[i + 1].v - 1]
        k == Size(ld.mesh.faces)
        face == [vertexIndices |-> vertexIndices,
                 normalIndices |-> PushGiven(tokens, "vn", Len(tokens)),
                 texCoordIndices |-> PushGiven(tokens, "vt", Len(tokens)),
                 count  |-> Size(vertexIndices),
                 offset |-> ld.faceVertexOffset,
                 normal |-> [xyz |-> [normalOfFace |-> k], w |-> 0],
                 center |-> [xyz |-> [centroidOfFace |-> k], w |-> 1],
                 area   |-> [areaOfFace |-> k]]
    IN IF Size(vertexIndices) < MinFaceVerts
       THEN SkipShortFace(ld, Size(vertexIndices))
       ELSE [mesh |-> [ld.mesh EXCEPT
                         !.faceVertexIndices =
                             PushAll(@, vertexIndices, Size(vertexIndices)),
                         !.faces = PushBack(@, face)],
             faceVertexOffset |-> ld.faceVertexOffset + face.count]

\* one iteration of the loop over the lines of the file
ReadLine(ld, line) ==
    CASE line.prefix = "v" ->
           [ld EXCEPT !.mesh.positions =
                          PushBack(@, [pos |-> Size(ld.mesh.positions)])]
      [] line.prefix = "vn" ->
           [ld EXCEPT !.mesh.normals =
                          PushBack(@, [nrm |-> Size(ld.mesh.normals)])]
      [] line.prefix = "vt" ->
           [ld EXCEPT !.mesh.texCoords =
                          PushBack(@, [uv |-> Size(ld.mesh.texCoords)])]
      [] line.prefix = "f" -> ReadFace(ld, line.tokens)
      [] OTHER -> ld

\* if (attribute.empty()) attribute.resize(n, value)
FillDefault(attribute, n, value) ==
    IF Size(attribute) = 0 THEN Resize(n, value) ELSE attribute

\* the end of load: defaults for missing attributes, and the counts
FinishLoad(ld) ==
    LET np == Size(ld.mesh.positions)
    IN [ld.mesh EXCEPT
          !.normals = FillDefault(@, np, DefaultNormal),
          !.texCoords = FillDefault(@, np, DefaultTexCoord),
          !.colors = Resize(np, DefaultColor),
          !.nbVertices = np,
          !.nbFaces = Size(ld.mesh.faces)]

---------------------------------------------------------------------------
(* HalfEdgeMesh and the steps of HalfEdgeBuilder::build. *)

\* a default-constructed HalfEdgeMesh
HalfEdgeMesh ==
    [nbVertices |-> 0, nbFaces |-> 0, nbHalfEdges |-> 0,
     vertexPositions |-> EmptyVec, vertexColors |-> EmptyVec,
     vertexNormals |-> EmptyVec, vertexTexCoords |-> EmptyVec,
     vertexEdges |-> EmptyVec,
     faceEdges |-> EmptyVec, faceVertCounts |-> EmptyVec,
     faceOffsets |-> EmptyVec, faceNormals |-> EmptyVec,
     faceCenters |-> EmptyVec, faceAreas |-> EmptyVec,
     heVertex |-> EmptyVec, heFace |-> EmptyVec, heNext |-> EmptyVec,
     hePrev |-> EmptyVec, heTwin |-> EmptyVec,
     vertexFaceIndices |-> EmptyVec]

NoMesh == [none |-> TRUE]

\* a plausible slip: one slot too many
TotalHalfEdgesOffByOne(ngonMesh) ==
    SumTo([k \in DOMAIN ngonMesh.faces |-> ngonMesh.faces[k].count],
          Size(ngonMesh.faces)) + 1

\* total half-edges = sum of all face vertex counts
TotalHalfEdges(ngonMesh) ==
    SumTo([k \in DOMAIN ngonMesh.faces |-> ngonMesh.faces[k].count],
          Size(ngonMesh.faces))

\* sizes, allocation and the copies of the vertex and face data
Allocate(ngonMesh) ==
    LET nv == ngonMesh.nbVertices
        nf == ngonMesh.nbFaces
        nh == TotalHalfEdges(ngonMesh)
    IN [nbVertices |-> nv, nbFaces |-> nf, nbHalfEdges |-> nh,
        vertexPositions |-> [i \in 0..(nv - 1) |->
                                [xyz |-> ngonMesh.positions[i], w |-> 1]],
        vertexColors    |-> [i \in 0..(nv - 1) |->
                                [xyz |-> ngonMesh.colors[i], w |-> 1]],
        vertexNormals   |-> [i \in 0..(nv - 1) |->
                                [xyz |-> ngonMesh.normals[i], w |-> 0]],
        vertexTexCoords |-> [i \in 0..(nv - 1) |-> ngonMesh.texCoords[i]],
        vertexEdges     |-> Resize(nv, NoEdge),
        faceEdges       |-> Resize(nf, 0),
        faceVertCounts  |-> [i \in 0..(nf - 1) |-> ngonMesh.faces[i].count],
        faceOffsets     |-> [i \in 0..(nf - 1) |-> ngonMesh.faces[i].offset],
        faceNormals     |-> [i \in 0..(nf - 1) |-> ngonMesh.faces[i].normal],
        faceCenters     |-> [i \in 0..(nf - 1) |-> ngonMesh.faces[i].center],
        faceAreas       |-> [i \in 0..(nf - 1) |-> ngonMesh.faces[i].area],
        heVertex |-> Resize(nh, 0), heFace |-> Resize(nh, 0),
        heNext   |-> Resize(nh, 0), hePrev |-> Resize(nh, 0),
        heTwin   |-> Resize(nh, NoEdge),
        vertexFaceIndices |-> ngonMesh.faceVertexIndices]

---------------------------------------------------------------------------
(* The face walk of build: one half-edge per consecutive vertex pair. *)

\* a plausible slip: the directed-edge map outlives the call (a static)
WalkStartStaleMap(m) ==
    [mesh |-> m, edgeMap |-> edgeMap, currentHE |-> 0, heWrites |-> <<>>]

\* build's locals as the face walk starts
WalkStart(m) ==
    [mesh |-> m, edgeMap |-> <<>>, currentHE |-> 0, heWrites |-> <<>>]

\* a plausible slip: every half-edge is filed under face 0
HeFaceOfZero(faceId) == 0

HeFaceOf(faceId) == faceId

\* next within the face loop, wrapping to the face's first half-edge
HeNextOf(i, count, firstHE, cur) ==
    IF i = count - 1 THEN firstHE ELSE cur + 1

\* prev within the face loop, wrapping to the face's last half-edge
HePrevOf(i, count, firstHE, cur) ==
    IF i = 0 THEN firstHE + count - 1 ELSE cur - 1

\* a plausible slip: every later half-edge replaces the recorded one
OutgoingOfLatest(old, heId) == heId

\* store one outgoing edge per vertex: only the first one is kept
OutgoingOf(old, heId) == IF old = NoEdge THEN heId ELSE old

\* a plausible slip: insert() in place of operator[], which keeps the
\* earlier registration
RegisterKeepingFirst(em, v0, v1, heId) == em @@ (<<v0, v1>> :> heId)

\* edgeMap[{v0, v1}] = heId: a later registration overwrites an earlier one
Register(em, v0, v1, heId) == (<<v0, v1>> :> heId) @@ em

\* one iteration of the loop over a face's vertices
WalkStep(st, face, faceId, firstHE, i) ==
    LET heId == st.currentHE
        v0 == face.vertexIndices[i]
        v1 == face.vertexIndices[(i + 1) % face.count]
    IN [mesh |-> [st.mesh EXCEPT
                    !.heVertex[heId] = v0,
                    !.heFace[heId] = HeFaceOf(faceId),
                    !.heNext[heId] = HeNextOf(i, face.count, firstHE, heId),
                    !.hePrev[heId] = HePrevOf(i, face.count, firstHE, heId),
                    !.vertexEdges[v0] = OutgoingOf(@, heId)],
        edgeMap |-> Register(st.edgeMap, v0, v1, heId),
        currentHE |-> heId + 1,
        heWrites |-> Append(st.heWrites, heId)]

RECURSIVE WalkFace(_, _, _, _, _)
WalkFace(st, face, faceId, firstHE, i) ==
    IF i >= face.count THEN st
    ELSE WalkFace(WalkStep(st, face, faceId, firstHE, i),
                  face, faceId, firstHE, i + 1)

\* a plausible slip: every face is given half-edge 0 as its representative
FaceEdgeOfZero(firstHE) == 0

\* the face's representative half-edge is the first one created for it
FaceEdgeOf(firstHE) == firstHE

RECURSIVE WalkFaces(_, _, _)
WalkFaces(st, ngonMesh, faceId) ==
    IF faceId >= st.mesh.nbFaces THEN st
    ELSE LET firstHE == st.currentHE
             walked == WalkFace(st, ngonMesh.faces[faceId], faceId, firstHE, 0)
         IN WalkFaces([walked EXCEPT
                          !.mesh.faceEdges[faceId] = FaceEdgeOf(firstHE)],
                      ngonMesh, faceId + 1)

---------------------------------------------------------------------------
(* Twin resolution of build. *)

\* a plausible slip: a pair is linked from its lower half-edge only
TwinStepOnlyForward(st, em, heId) ==
    LET v0 == st.mesh.heVertex[heId]
        v1 == st.mesh.heVertex[st.mesh.heNext[heId]]
    IN IF <<v1, v0>> \in DOMAIN em /\ em[<<v1, v0>>] > heId
       THEN [st EXCEPT !.mesh.heTwin[heId] = em[<<v1, v0>>]]
       ELSE [st EXCEPT !.boundaryEdges = @ + 1]

\* a plausible slip: the edge itself is looked up, not its reverse
TwinStepSameDirection(st, em, heId) ==
    LET v0 == st.mesh.heVertex[heId]
        v1 == st.mesh.heVertex[st.mesh.heNext[heId]]
    IN IF <<v0, v1>> \in DOMAIN em
       THEN [st EXCEPT !.mesh.heTwin[heId] = em[<<v0, v1>>]]
       ELSE [st EXCEPT !.boundaryEdges = @ + 1]

\* one iteration: look the reverse directed edge up in edgeMap
TwinStep(st, em, heId) ==
    LET v0 == st.mesh.heVertex[heId]
        v1 == st.mesh.heVertex[st.mesh.heNext[heId]]
    IN IF <<v1, v0>> \in DOMAIN em
       THEN [st EXCEPT !.mesh.heTwin[heId] = em[<<v1, v0>>]]
       ELSE [st EXCEPT !.boundaryEdges = @ + 1]

RECURSIVE TwinLoop(_, _, _)
TwinLoop(st, em, heId) ==
    IF heId >= st.mesh.nbHalfEdges THEN st
    ELSE TwinLoop(TwinStep(st, em, heId), em, heId + 1)

ResolveTwins(m, em) == TwinLoop([mesh |-> m, boundaryEdges |-> 0], em, 0)

---------------------------------------------------------------------------
(* HalfEdgeBuilder::validateTopology. *)

Accept(passes) ==
    [kind |-> "ok", why |-> "", at |-> -1, n |-> 0, passes |-> passes]

\* a std::runtime_error: its kind, the message it carries, the face or
\* vertex it names and the count it reports
Reject(kind, why, at, n, passes) ==
    [kind |-> kind, why |-> why, at |-> at, n |-> n, passes |-> passes]

\* a plausible slip: the walk does not compare prev(next(e)) with e
RECURSIVE LoopWalkNoPrevCheck(_, _, _, _)
LoopWalkNoPrevCheck(m, start, edge, count) ==
    LET next == m.heNext[edge]
    IN IF count + 1 > m.nbHalfEdges
       THEN [end |-> "infinite loop", count |-> count + 1]
       ELSE IF next # start
       THEN LoopWalkNoPrevCheck(m, start, next, count + 1)
       ELSE [end |-> "closed", count |-> count + 1]

\* the do-while walk over one face; count is the number of steps taken
RECURSIVE LoopWalk(_, _, _, _)
LoopWalk(m, start, edge, count) ==
    LET next == m.heNext[edge]
    IN IF m.hePrev[next] # edge
       THEN [end |-> "prev(next(e)) != e", count |-> count]
       ELSE IF count + 1 > m.nbHalfEdges
       THEN [end |-> "infinite loop", count |-> count + 1]
       ELSE IF next # start
       THEN LoopWalk(m, start, next, count + 1)
       ELSE [end |-> "closed", count |-> count + 1]

\* Test 1 on one face
CheckFace(m, faceId) ==
    LET w == LoopWalk(m, m.faceEdges[faceId], m.faceEdges[faceId], 0)
    IN IF w.end # "closed"
       THEN Reject("LoopBroken", w.end, faceId, w.count, <<>>)
       ELSE IF w.count # m.faceVertCounts[faceId]
       THEN Reject("LoopLengthMismatch", "loop count", faceId, w.count, <<>>)
       ELSE Accept(<<>>)

\* Test 1 from face faceId on
RECURSIVE LoopClosureFrom(_, _)
LoopClosureFrom(m, faceId) ==
    IF faceId >= m.nbFaces THEN Accept(<<>>)
    ELSE LET r == CheckFace(m, faceId)
         IN IF r.kind # "ok" THEN r ELSE LoopClosureFrom(m, faceId + 1)

\* a plausible slip: the loop starts at face 1
LoopClosurePassFromOne(m) == LoopClosureFrom(m, 1)

\* Test 1: next/prev loops close correctly, face by face
LoopClosurePass(m) == LoopClosureFrom(m, 0)

\* the twin errors half-edge heId adds to the count
TwinErrorsAt(m, heId) ==
    LET twin == m.heTwin[heId]
    IN IF twin = NoEdge THEN 0
       ELSE LET v0 == m.heVertex[heId]
                v1 == m.heVertex[m.heNext[heId]]
                tv0 == m.heVertex[twin]
                tv1 == m.heVertex[m.heNext[twin]]
            IN (IF m.heTwin[twin] # heId THEN 1 ELSE 0)
               + (IF v0 # tv1 \/ v1 # tv0 THEN 1 ELSE 0)

\* a plausible slip: the loop breaks at the first half-edge with an error
RECURSIVE TwinErrorsFirstOnly(_, _)
TwinErrorsFirstOnly(m, n) ==
    IF n <= 0 THEN 0
    ELSE IF TwinErrorsFirstOnly(m, n - 1) > 0
    THEN TwinErrorsFirstOnly(m, n - 1)
    ELSE TwinErrorsAt(m, n - 1)

RECURSIVE TwinErrors(_, _)
TwinErrors(m, n) ==
    IF n <= 0 THEN 0 ELSE TwinErrors(m, n - 1) + TwinErrorsAt(m, n - 1)

\* a plausible slip: the count is compared the wrong way round
TwinSymmetryPassNeverFails(m) ==
    LET twinErrors == TwinErrors(m, m.nbHalfEdges)
    IN IF twinErrors < 0
       THEN Reject("TwinAsymmetryError", "twin errors", -1, twinErrors, <<>>)
       ELSE Accept(<<>>)

\* Test 2: twin symmetry, counted over every half-edge
TwinSymmetryPass(m) ==
    LET twinErrors == TwinErrors(m, m.nbHalfEdges)
    IN IF twinErrors > 0
       THEN Reject("TwinAsymmetryError", "twin errors", -1, twinErrors, <<>>)
       ELSE Accept(<<>>)

\* Test 3 from vertex v on
RECURSIVE VertexFrom(_, _)
VertexFrom(m, v) ==
    IF v >= m.nbVertices THEN Accept(<<>>)
    ELSE LET edge == m.vertexEdges[v]
         IN IF edge = NoEdge
            THEN Reject("DanglingVertex", "no outgoing edge", v, 0, <<>>)
            ELSE IF m.heVertex[edge] # v
            THEN Reject("WrongOriginVertex", "edge points to wrong vertex",
                        v, 0, <<>>)
            ELSE VertexFrom(m, v + 1)

\* a plausible slip: the loop starts at vertex 1
VertexPassFromOne(m) == VertexFrom(m, 1)

\* Test 3: every vertex has a valid outgoing edge
VertexPass(m) == VertexFrom(m, 0)

\* a plausible slip: the twin test comes before the loop test
ValidateTopologyTwinsFirst(m) ==
    LET t1 == LoopClosurePass(m)
        t2 == TwinSymmetryPass(m)
        t3 == VertexPass(m)
    IN IF t2.kind # "ok" THEN [t2 EXCEPT !.passes = <<>>]
       ELSE IF t1.kind # "ok" THEN [t1 EXCEPT !.passes = <<"twins">>]
       ELSE IF t3.kind # "ok" THEN [t3 EXCEPT !.passes = <<"loops", "twins">>]
       ELSE Accept(<<"loops", "twins", "vertices">>)

\* the three tests in order; the first exception ends the call
ValidateTopology(m) ==
    LET t1 == LoopClosurePass(m)
        t2 == TwinSymmetryPass(m)
        t3 == VertexPass(m)
    IN IF t1.kind # "ok" THEN [t1 EXCEPT !.passes = <<>>]
       ELSE IF t2.kind # "ok" THEN [t2 EXCEPT !.passes = <<"loops">>]
       ELSE IF t3.kind # "ok" THEN [t3 EXCEPT !.passes = <<"loops", "twins">>]
       ELSE Accept(<<"loops", "twins", "vertices">>)

---------------------------------------------------------------------------
(* The call to build. *)

NoError == [kind |-> "none", why |-> "", at |-> -1, n |-> 0, passes |-> <<>>]

NoVerdict == [kind |-> "notrun", why |-> "", at |-> -1, n |-> 0, passes |-> <<>>]

Init ==
    /\ IsSource(src)
    /\ pc = "start"
    /\ mesh = HalfEdgeMesh
    /\ edgeMap = <<>>
    /\ currentHE = 0
    /\ heWrites = <<>>
    /\ boundaryEdges = 0
    /\ verdict = NoVerdict
    /\ returned = NoMesh
    /\ thrown = NoError
    /\ recheck = NoVerdict
    /\ round = 0
    /\ first = [none |-> TRUE]
    /\ file = NoFile
    /\ loading = NoLoad

\* HalfEdge.cpp 8-68
BuildAllocate ==
    /\ pc = "start"
    /\ mesh' = Allocate(src)
    /\ pc' = "walk"
    /\ UNCHANGED <<src, edgeMap, currentHE, heWrites, boundaryEdges, verdict,
                   returned, thrown, recheck, round, first, file, loading>>

\* HalfEdge.cpp 70-102
BuildFaceWalk ==
    /\ pc = "walk"
    /\ LET st == WalkFaces(WalkStart(mesh), src, 0)
       IN /\ mesh' = st.mesh
          /\ edgeMap' = st.edgeMap
          /\ currentHE' = st.currentHE
          /\ heWrites' = st.heWrites
    /\ pc' = "twins"
    /\ UNCHANGED <<src, boundaryEdges, verdict, returned, thrown, recheck,
                   round, first, file, loading>>

\* HalfEdge.cpp 104-118
BuildTwins ==
    /\ pc = "twins"
    /\ LET st == ResolveTwins(mesh, edgeMap)
       IN /\ mesh' = st.mesh
          /\ boundaryEdges' = st.boundaryEdges
    /\ pc' = "validate"
    /\ UNCHANGED <<src, edgeMap, currentHE, heWrites, verdict, returned,
                   thrown, recheck, round, first, file, loading>>

\* a plausible slip: the validator's exception is caught and dropped
BuildOutcomeSwallowed(m, v) ==
    [pc |-> "returned", returned |-> m, thrown |-> NoError]

\* validateTopology(mesh); return mesh: an exception leaves build, and the
\* caller gets no mesh
BuildOutcome(m, v) ==
    IF v.kind = "ok"
    THEN [pc |-> "returned", returned |-> m, thrown |-> NoError]
    ELSE [pc |-> "failed", returned |-> NoMesh, thrown |-> v]

\* HalfEdge.cpp 120-124
BuildValidate ==
    /\ pc = "validate"
    /\ verdict' = ValidateTopology(mesh)
    /\ LET out == BuildOutcome(mesh, verdict')
       IN /\ pc' = out.pc
          /\ returned' = out.returned
          /\ thrown' = out.thrown
    /\ UNCHANGED <<src, mesh, edgeMap, currentHE, heWrites, boundaryEdges,
                   recheck, round, first, file, loading>>

Next == BuildAllocate \/ BuildFaceWalk \/ BuildTwins \/ BuildValidate

Spec == Init /\ [][Next]_vars

---------------------------------------------------------------------------
(* A returned mesh is damaged by its holder and validated again. *)

\* one next reference of the returned mesh is replaced by another
\* in-range half-edge index
CorruptNext ==
    /\ pc = "returned"
    /\ \E e \in 0..(returned.nbHalfEdges - 1) :
       \E x \in 0..(returned.nbHalfEdges - 1) :
          /\ x # returned.heNext[e]
          /\ returned' = [returned EXCEPT !.heNext[e] = x]
    /\ pc' = "corrupted"
    /\ UNCHANGED <<src, mesh, edgeMap, currentHE, heWrites, boundaryEdges,
                   verdict, thrown, recheck, round, first, file, loading>>

\* validateTopology on the damaged mesh
Revalidate ==
    /\ pc = "corrupted"
    /\ recheck' = ValidateTopology(returned)
    /\ pc' = "rechecked"
    /\ UNCHANGED <<src, mesh, edgeMap, currentHE, heWrites, boundaryEdges,
                   verdict, returned, thrown, round, first, file, loading>>

NextCorrupt == Next \/ CorruptNext \/ Revalidate

SpecCorrupt == Init /\ [][NextCorrupt]_vars

---------------------------------------------------------------------------
(* build is called again: a source, then another one, then the first one. *)
(* The locals of the earlier call are what the memory still holds.        *)

\* the sources built in between: the closed pair of triangles, which is
\* returned, and a quad with doubled directed edges, which is rejected
DoubledEdgeFaces == ZeroBased(<<ZeroBased(<<0, 1, 0, 1>>)>>)

OtherSources == {NGonMesh(3, PillowFaces), NGonMesh(2, DoubledEdgeFaces)}

CallAgain ==
    /\ pc \in {"returned", "failed"}
    /\ round < 2
    /\ first' = IF round = 0
                THEN [src |-> src, mesh |-> mesh, returned |-> returned,
                      thrown |-> thrown]
                ELSE first
    /\ IF round = 0 THEN src' \in OtherSources ELSE src' = first.src
    /\ round' = round + 1
    /\ pc' = "start"
    /\ verdict' = NoVerdict
    /\ returned' = NoMesh
    /\ thrown' = NoError
    /\ UNCHANGED <<mesh, edgeMap, currentHE, heWrites, boundaryEdges, recheck,
                   file, loading>>

NextAgain == Next \/ CallAgain

SpecAgain == Init /\ [][NextAgain]_vars

---------------------------------------------------------------------------
(* ObjLoader::load is called on a file. *)

NoSource == [none |-> TRUE]

\* a file is missing, or holds up to MaxLines lines; shortFaceRead tells
\* whether a face line of fewer than 3 vertices was among the lines read
InitLoad ==
    /\ file \in {[open |-> FALSE, linesLeft |-> 0, shortFaceRead |-> FALSE]}
                \cup {[open |-> TRUE, linesLeft |-> n,
                       shortFaceRead |-> FALSE] : n \in 0..MaxLines}
    /\ loading = NoLoad
    /\ src = NoSource
    /\ pc = "open"
    /\ mesh = HalfEdgeMesh
    /\ edgeMap = <<>>
    /\ currentHE = 0
    /\ heWrites = <<>>
    /\ boundaryEdges = 0
    /\ verdict = NoVerdict
    /\ returned = NoMesh
    /\ thrown = NoError
    /\ recheck = NoVerdict
    /\ round = 0
    /\ first = [none |-> TRUE]

\* ObjLoader.cpp 8-15
LoadOpen ==
    /\ pc = "open"
    /\ IF file.open
       THEN /\ pc' = "read"
            /\ loading' = LoadStart
            /\ thrown' = thrown
       ELSE /\ pc' = "loadfailed"
            /\ loading' = loading
            /\ thrown' = Reject("OpenFailed", "Failed to open OBJ file",
                                -1, 0, <<>>)
    /\ UNCHANGED <<src, mesh, edgeMap, currentHE, heWrites, boundaryEdges,
                   verdict, returned, recheck, round, first, file>>

\* ObjLoader.cpp 19-92, one line
LoadLine ==
    /\ pc = "read"
    /\ file.linesLeft > 0
    /\ \E line \in LinesAfter(Size(loading.mesh.positions),
                              MaxHalfEdges - loading.faceVertexOffset) :
          /\ loading' = ReadLine(loading, line)
          /\ file' = [file EXCEPT
                         !.linesLeft = @ - 1,
                         !.shortFaceRead =
                             @ \/ (/\ line.prefix = "f"
                                   /\ Len(line.tokens) < MinFaceVerts)]
    /\ UNCHANGED <<src, pc, mesh, edgeMap, currentHE, heWrites, boundaryEdges,
                   verdict, returned, thrown, recheck, round, first>>

\* ObjLoader.cpp 94-120
LoadReturn ==
    /\ pc = "read"
    /\ file.linesLeft = 0
    /\ src' = FinishLoad(loading)
    /\ pc' = "loaded"
    /\ UNCHANGED <<mesh, edgeMap, currentHE, heWrites, boundaryEdges, verdict,
                   returned, thrown, recheck, round, first, file, loading>>

NextLoad == LoadOpen \/ LoadLine \/ LoadReturn

SpecLoad == InitLoad /\ [][NextLoad]_vars

---------------------------------------------------------------------------
(* validateTopology is called on index tables of any content. *)

\* a mesh with the given index tables; the validator reads no other array
TableMesh(t) ==
    [HalfEdgeMesh EXCEPT
        !.nbVertices = Size(t.vertexEdges),
        !.nbFaces = Size(t.faceEdges),
        !.nbHalfEdges = Size(t.heNext),
        !.vertexEdges = t.vertexEdges,
        !.faceEdges = t.faceEdges, !.faceVertCounts = t.faceVertCounts,
        !.heVertex = t.heVertex, !.heFace = Resize(Size(t.heNext), 0),
        !.heNext = t.heNext, !.hePrev = t.hePrev, !.heTwin = t.heTwin]

\* tables with any next, prev, representatives and declared counts in
\* range, no twins and no vertices; face 0, as in build, starts at
\* half-edge 0
IsLoopTable(m) ==
    \E nh \in 0..(MaxTable - 1) :
    \E nf \in 0..(IF nh = 0 THEN 0 ELSE MaxTable - nh) :
    \E heNext \in [0..(nh - 1) -> 0..(nh - 1)] :
    \E hePrev \in [0..(nh - 1) -> 0..(nh - 1)] :
    \E faceEdges \in {fe \in [0..(nf - 1) -> 0..(nh - 1)] :
                          nf > 0 => fe[0] = 0} :
    \E faceVertCounts \in [0..(nf - 1) -> 1..nh] :
        m = TableMesh([heVertex |-> Resize(nh, 0), heNext |-> heNext,
                       hePrev |-> hePrev, heTwin |-> Resize(nh, NoEdge),
                       faceEdges |-> faceEdges,
                       faceVertCounts |-> faceVertCounts,
                       vertexEdges |-> EmptyVec])

\* tables of one face around all half-edges, whose prev is the inverse of
\* next or next once more and whose declared count is right or one too
\* many, with any origins, twins and outgoing edges in range
IsTwinVertexTable(m) ==
    \E nh \in 1..MaxTable :
    \E nv \in 1..(MaxTable - nh) :
    \E heVertex \in [0..(nh - 1) -> 0..(nv - 1)] :
    \E heTwin \in [0..(nh - 1) -> (0..(nh - 1)) \cup {NoEdge}] :
    \E vertexEdges \in [0..(nv - 1) -> (0..(nh - 1)) \cup {NoEdge}] :
    \E prevIsNext \in BOOLEAN :
    \E count \in {nh, nh + 1} :
        LET heNext == [e \in 0..(nh - 1) |-> (e + 1) % nh]
            hePrev == [e \in 0..(nh - 1) |->
                          IF prevIsNext THEN (e + 1) % nh
                          ELSE (e + nh - 1) % nh]
        IN m = TableMesh([heVertex |-> heVertex, heNext |-> heNext,
                          hePrev |-> hePrev, heTwin |-> heTwin,
                          faceEdges |-> Resize(1, 0),
                          faceVertCounts |-> Resize(1, count),
                          vertexEdges |-> vertexEdges])

InitTables ==
    /\ IsLoopTable(mesh) \/ IsTwinVertexTable(mesh)
    /\ pc = "tables"
    /\ src = NoSource
    /\ edgeMap = <<>>
    /\ currentHE = 0
    /\ heWrites = <<>>
    /\ boundaryEdges = 0
    /\ verdict = NoVerdict
    /\ returned = NoMesh
    /\ thrown = NoError
    /\ recheck = NoVerdict
    /\ round = 0
    /\ first = [none |-> TRUE]
    /\ file = NoFile
    /\ loading = NoLoad

\* HalfEdge.cpp 127-199
ValidateTables ==
    /\ pc = "tables"
    /\ verdict' = ValidateTopology(mesh)
    /\ pc' = "validated"
    /\ UNCHANGED <<src, mesh, edgeMap, currentHE, heWrites, boundaryEdges,
                   returned, thrown, recheck, round, first, file, loading>>

NextTables == ValidateTables

SpecTables == InitTables /\ [][NextTables]_vars

---------------------------------------------------------------------------
(* Vocabulary of the properties. *)

HalfEdgeIds(m) == 0..(m.nbHalfEdges - 1)
FaceIds(m) == 0..(m.nbFaces - 1)
VertexIds(m) == 0..(m.nbVertices - 1)

Origin(m, e) == m.heVertex[e]
Destination(m, e) == m.heVertex[m.heNext[e]]

\* e after k applications of next
RECURSIVE NextTimes(_, _, _)
NextTimes(m, e, k) == IF k <= 0 THEN e ELSE NextTimes(m, m.heNext[e], k - 1)

AllPasses == <<"loops", "twins", "vertices">>

ErrorKinds ==
    {"LoopBroken", "LoopLengthMismatch", "TwinAsymmetryError",
     "DanglingVertex", "WrongOriginVertex"}

SourceCountSum ==
    SumTo([k \in DOMAIN src.faces |-> src.faces[k].count], Size(src.faces))

\* the sides of the faces of a source: face k, position i
Sides(s) ==
    UNION {{<<k, i>> : i \in 0..(s.faces[k].count - 1)} :
              k \in 0..(s.nbFaces - 1)}

SideFrom(s, sd) == s.faces[sd[1]].vertexIndices[sd[2]]
SideTo(s, sd) ==
    s.faces[sd[1]].vertexIndices[(sd[2] + 1) % s.faces[sd[1]].count]

\* the sides along the directed edge (a, b)
SidesAlong(s, a, b) ==
    {sd \in Sides(s) : SideFrom(s, sd) = a /\ SideTo(s, sd) = b}

\* the faces with a side on the undirected edge {a, b}
FacesOn(s, a, b) ==
    {sd[1] : sd \in SidesAlong(s, a, b) \cup SidesAlong(s, b, a)}

\* every undirected edge is shared by exactly two faces
EveryEdgeOnTwoFaces(s) ==
    \A sd \in Sides(s) :
        Cardinality(FacesOn(s, SideFrom(s, sd), SideTo(s, sd))) = 2

\* ... and the two faces traverse it in opposite directions, once each
EveryEdgeOnTwoFacesOpposite(s) ==
    \A sd \in Sides(s) :
        LET a == SideFrom(s, sd)
            b == SideTo(s, sd)
        IN /\ SidesAlong(s, a, b) = {sd}
           /\ \E op \in Sides(s) :
                 /\ SidesAlong(s, b, a) = {op}
                 /\ op[1] # sd[1]

\* the half-edge the face walk creates for a side
SideHalfEdge(s, sd) ==
    SumTo([f \in DOMAIN s.faces |-> s.faces[f].count], sd[1]) + sd[2]

\* the sides on an undirected edge that three or more faces share
NonManifoldSides(s) ==
    {sd \in Sides(s) :
        Cardinality(FacesOn(s, SideFrom(s, sd), SideTo(s, sd))) >= 3}

\* the vertices some face uses
UsedVertices(s) == {SideFrom(s, sd) : sd \in Sides(s)}

---------------------------------------------------------------------------
(* C1: build is atomic.  A mesh reaches the caller only from a call in     *)
(* which validateTopology ran all three passes on that very mesh and       *)
(* accepted it; a call in which the validator threw returns no mesh and    *)
(* surfaces the validator's error; and before the call ends the caller     *)
(* holds nothing.                                                          *)
C1_BuildIsAtomic ==
    /\ returned # NoMesh =>
          /\ pc = "returned"
          /\ returned = mesh
          /\ thrown = NoError
          /\ verdict.kind = "ok"
          /\ verdict.passes = AllPasses
    /\ pc = "returned" => returned # NoMesh
    /\ pc = "failed" =>
          /\ returned = NoMesh
          /\ thrown = verdict
          /\ thrown.kind \in ErrorKinds
    /\ pc \notin {"returned", "failed"} =>
          returned = NoMesh /\ thrown = NoError

\* a call that failed in the validator: no mesh came back
C1_Witness ==
    /\ pc = "failed"
    /\ thrown.kind = "TwinAsymmetryError"
    /\ returned = NoMesh
    /\ mesh.nbHalfEdges > 0

(* C2: in every returned mesh, every half-edge e with a twin has           *)
(* twin(twin(e)) = e, origin(e) = destination(twin(e)) and                 *)
(* destination(e) = origin(twin(e)).                                       *)
C2_TwinSymmetry ==
    pc = "returned" =>
        \A e \in HalfEdgeIds(returned) :
            LET t == returned.heTwin[e]
            IN t # NoEdge =>
                  /\ returned.heTwin[t] = e
                  /\ Origin(returned, e) = Destination(returned, t)
                  /\ Destination(returned, e) = Origin(returned, t)

\* a returned mesh with twins on two different faces
C2_Witness ==
    /\ pc = "returned"
    /\ \E e \in HalfEdgeIds(returned) :
          /\ returned.heTwin[e] # NoEdge
          /\ returned.heFace[returned.heTwin[e]] # returned.heFace[e]

(* C3: in every returned mesh, following next from faceEdges[f] visits     *)
(* exactly faceVertCounts[f] pairwise distinct half-edges before returning *)
(* to faceEdges[f], each of them with heFace = f; the loops of different   *)
(* faces are disjoint and together cover all half-edges.                   *)
C3_FaceLoops ==
    pc = "returned" =>
        LET m == returned
            at(f, k) == NextTimes(m, m.faceEdges[f], k)
        IN /\ \A f \in FaceIds(m) :
                LET n == m.faceVertCounts[f]
                IN /\ at(f, n) = m.faceEdges[f]
                   /\ \A k \in 1..(n - 1) : at(f, k) # m.faceEdges[f]
                   /\ \A j, k \in 0..(n - 1) : j # k => at(f, j) # at(f, k)
                   /\ \A k \in 0..(n - 1) : m.heFace[at(f, k)] = f
           /\ \A f, g \in FaceIds(m) :
                f # g =>
                    \A j \in 0..(m.faceVertCounts[f] - 1) :
                    \A k \in 0..(m.faceVertCounts[g] - 1) : at(f, j) # at(g, k)
           /\ \A e \in HalfEdgeIds(m) :
                \E f \in FaceIds(m) :
                \E k \in 0..(m.faceVertCounts[f] - 1) : at(f, k) = e

\* a returned mesh with a triangle and a quad
C3_Witness ==
    /\ pc = "returned"
    /\ returned.nbFaces = 2
    /\ returned.faceVertCounts[0] # returned.faceVertCounts[1]

(* C4: in every returned mesh, next(prev(e)) = e and prev(next(e)) = e for *)
(* every half-edge e in [0, nbHalfEdges).                                  *)
C4_NextPrevInverse ==
    pc = "returned" =>
        \A e \in HalfEdgeIds(returned) :
            /\ returned.heNext[returned.hePrev[e]] = e
            /\ returned.hePrev[returned.heNext[e]] = e

\* a returned mesh with two faces, so with both wraparounds away from 0
C4_Witness ==
    /\ pc = "returned"
    /\ returned.nbFaces = 2
    /\ returned.hePrev[returned.faceEdges[1]] = returned.nbHalfEdges - 1
    /\ returned.heNext[returned.nbHalfEdges - 1] = returned.faceEdges[1]

(* C5: in every returned mesh, every vertex v has vertexEdges[v] # -1 and  *)
(* heVertex[vertexEdges[v]] = v.                                           *)
C5_VertexOutgoing ==
    pc = "returned" =>
        \A v \in VertexIds(returned) :
            /\ returned.vertexEdges[v] # NoEdge
            /\ returned.heVertex[returned.vertexEdges[v]] = v

\* a returned mesh in which some vertex is the origin of several half-edges
C5_Witness ==
    /\ pc = "returned"
    /\ \E v \in VertexIds(returned) :
          Cardinality({e \in HalfEdgeIds(returned) : returned.heVertex[e] = v}) > 1

(* C6: in every mesh returned from a source whose vertex indices are in    *)
(* range, heNext, hePrev, faceEdges and vertexEdges are in                 *)
(* [0, nbHalfEdges), heFace in [0, nbFaces), heVertex in [0, nbVertices),  *)
(* and heTwin is -1 or in [0, nbHalfEdges).                                *)
C6_IndicesInRange ==
    pc = "returned" =>
        LET m == returned
        IN /\ \A e \in HalfEdgeIds(m) :
                /\ m.heNext[e] \in HalfEdgeIds(m)
                /\ m.hePrev[e] \in HalfEdgeIds(m)
                /\ m.heFace[e] \in FaceIds(m)
                /\ m.heVertex[e] \in VertexIds(m)
                /\ m.heTwin[e] \in HalfEdgeIds(m) \cup {NoEdge}
           /\ \A f \in FaceIds(m) : m.faceEdges[f] \in HalfEdgeIds(m)
           /\ \A v \in VertexIds(m) : m.vertexEdges[v] \in HalfEdgeIds(m)

\* a returned mesh with boundary half-edges and half-edges with a twin
C6_Witness ==
    /\ pc = "returned"
    /\ \E e \in HalfEdgeIds(returned) : returned.heTwin[e] = NoEdge
    /\ \E e \in HalfEdgeIds(returned) : returned.heTwin[e] # NoEdge

(* C7: nbHalfEdges is the sum of the faces' vertex counts; the five        *)
(* half-edge arrays have nbHalfEdges elements, the vertex arrays           *)
(* nbVertices, the face arrays nbFaces; and the face walk writes every     *)
(* half-edge slot exactly once.                                            *)
C7_SizesAndWrites ==
    /\ pc # "start" =>
          /\ mesh.nbHalfEdges = SourceCountSum
          /\ mesh.nbVertices = src.nbVertices
          /\ mesh.nbFaces = src.nbFaces
          /\ \A a \in {mesh.heVertex, mesh.heFace, mesh.heNext, mesh.hePrev,
                       mesh.heTwin} : DOMAIN a = HalfEdgeIds(mesh)
          /\ \A a \in {mesh.vertexPositions, mesh.vertexColors,
                       mesh.vertexNormals, mesh.vertexTexCoords} :
                DOMAIN a = VertexIds(mesh)
          /\ DOMAIN mesh.vertexEdges = VertexIds(mesh)
          /\ \A a \in {mesh.faceEdges, mesh.faceVertCounts, mesh.faceOffsets} :
                DOMAIN a = FaceIds(mesh)
          /\ \A a \in {mesh.faceNormals, mesh.faceCenters} :
                DOMAIN a = FaceIds(mesh)
          /\ DOMAIN mesh.faceAreas = FaceIds(mesh)
    /\ pc \notin {"start", "walk"} =>
          /\ Len(heWrites) = mesh.nbHalfEdges
          /\ \A e \in HalfEdgeIds(mesh) :
                Cardinality({k \in 1..Len(heWrites) : heWrites[k] = e}) = 1

\* the face walk is over on a triangle and a quad
C7_Witness ==
    /\ pc = "twins"
    /\ mesh.nbFaces = 2
    /\ mesh.faceVertCounts[0] # mesh.faceVertCounts[1]
    /\ Len(heWrites) = mesh.faceVertCounts[0] + mesh.faceVertCounts[1]

(* C9: a source with zero vertices and zero faces builds without error     *)
(* into a mesh with nbVertices = nbFaces = nbHalfEdges = 0 and all arrays  *)
(* empty, and all three validator passes accept it.                        *)
C9_EmptySource ==
    (src.nbVertices = 0 /\ src.nbFaces = 0) =>
        /\ pc # "failed"
        /\ thrown = NoError
        /\ pc = "returned" =>
              /\ returned = HalfEdgeMesh
              /\ verdict = Accept(AllPasses)
              /\ LoopClosurePass(returned).kind = "ok"
              /\ TwinSymmetryPass(returned).kind = "ok"
              /\ VertexPass(returned).kind = "ok"

\* the build of the empty source has returned
C9_Witness ==
    /\ src.nbVertices = 0
    /\ src.nbFaces = 0
    /\ pc = "returned"
    /\ returned.nbHalfEdges = 0

(* C8: build is deterministic and stateless.  A source built a second     *)
(* time, after another source was built in between, gives the very arrays  *)
(* of its first build, and the very mesh or the very error as its outcome; *)
(* and no step of build changes the source.                                *)
C8_Deterministic ==
    /\ [](/\ round = 2 => src = first.src
          /\ (round >= 1 /\ src = first.src) =>
                /\ pc \in {"validate", "returned", "failed"} =>
                      mesh = first.mesh
                /\ pc \in {"returned", "failed"} =>
                      /\ returned = first.returned
                      /\ thrown = first.thrown)
    /\ [][pc \notin {"returned", "failed"} => src' = src]_vars

\* the second build of a source has returned, with twins, after a build of
\* another source
C8_Witness ==
    /\ round = 2
    /\ pc = "returned"
    /\ src \notin OtherSources
    /\ returned = first.returned
    /\ \E e \in HalfEdgeIds(returned) : returned.heTwin[e] # NoEdge

(* C10: for every returned mesh and every half-edge e, replacing heNext[e] *)
(* by any other in-range half-edge index makes the validator fail with     *)
(* LoopBroken or LoopLengthMismatch: it neither accepts the mesh nor       *)
(* reports another kind of failure.                                        *)
C10_CorruptedNextIsCaught ==
    pc = "rechecked" => recheck.kind \in {"LoopBroken", "LoopLengthMismatch"}

\* a next reference of the second face was redirected into the first face,
\* and the validator has run
C10_Witness ==
    /\ pc = "rechecked"
    /\ recheck.kind = "LoopBroken"
    /\ \E e \in HalfEdgeIds(mesh) :
          /\ mesh.heFace[e] = 1
          /\ returned.heNext[e] # mesh.heNext[e]
          /\ mesh.heFace[returned.heNext[e]] = 0

(* C11, as amended: for every source in which every undirected edge is     *)
(* shared by exactly two faces that traverse it in opposite directions,     *)
(* twin resolution ends with boundary-edge count 0 and a twin on every      *)
(* half-edge, and neither the loop-closure pass nor the twin-symmetry pass  *)
(* reports a violation; the build succeeds exactly when, in addition,       *)
(* every vertex is used by some face.                                       *)
C11_ClosedOriented ==
    (EveryEdgeOnTwoFacesOpposite(src) /\ pc \in {"validate", "returned", "failed"}) =>
        /\ boundaryEdges = 0
        /\ \A e \in HalfEdgeIds(mesh) : mesh.heTwin[e] # NoEdge
        /\ LoopClosurePass(mesh).kind = "ok"
        /\ TwinSymmetryPass(mesh).kind = "ok"
        /\ pc = "returned" => UsedVertices(src) = VertexIds(mesh)
        /\ pc = "failed" =>
              /\ thrown.kind = "DanglingVertex"
              /\ UsedVertices(src) # VertexIds(mesh)

\* the build of a closed, consistently oriented surface has returned
C11_Witness ==
    /\ EveryEdgeOnTwoFacesOpposite(src)
    /\ src.nbFaces >= 4
    /\ pc = "returned"
    /\ boundaryEdges = 0

(* C11, as stated: for every source in which every undirected edge is      *)
(* shared by exactly two faces, the build succeeds with boundary-edge      *)
(* count 0 and no violation in the loop-closure and twin-symmetry passes.  *)
C11_Original ==
    EveryEdgeOnTwoFaces(src) =>
        /\ pc # "failed"
        /\ pc \in {"validate", "returned"} =>
              /\ boundaryEdges = 0
              /\ \A e \in HalfEdgeIds(mesh) : mesh.heTwin[e] # NoEdge
              /\ LoopClosurePass(mesh).kind = "ok"
              /\ TwinSymmetryPass(mesh).kind = "ok"

(* C12: building a closed cube (8 vertices, 6 quadrilateral faces)         *)
(* succeeds with nbHalfEdges = 24, boundary-edge count 0 and a twin on     *)
(* every half-edge.                                                        *)
C12_Cube ==
    src \in Cubes =>
        /\ pc # "failed"
        /\ pc # "start" => mesh.nbHalfEdges = 24
        /\ pc \in {"validate", "returned"} =>
              /\ boundaryEdges = 0
              /\ \A e \in HalfEdgeIds(mesh) : mesh.heTwin[e] # NoEdge
        /\ pc = "returned" => returned = mesh

\* the build of the cube has returned its 24 half-edges
C12_Witness ==
    /\ src = NGonMesh(8, CubeFaces)
    /\ pc = "returned"
    /\ returned.nbVertices = 8
    /\ returned.nbFaces = 6
    /\ \A f \in FaceIds(returned) : returned.faceVertCounts[f] = 4
    /\ Cardinality({returned.heTwin[e] : e \in HalfEdgeIds(returned)}) = 24

\* a single triangle on three vertices, in any order
IsIsolatedTriangle(s) ==
    /\ s.nbVertices = 3
    /\ s.nbFaces = 1
    /\ s.faces[0].count = 3
    /\ {s.faces[0].vertexIndices[i] : i \in 0..2} = {0, 1, 2}

(* C13: building a single isolated triangle (3 vertices, 1 face) succeeds  *)
(* with nbHalfEdges = 3, boundary-edge count 3 and heTwin = -1 on all      *)
(* three half-edges.                                                       *)
C13_IsolatedTriangle ==
    IsIsolatedTriangle(src) =>
        /\ pc # "failed"
        /\ pc # "start" => mesh.nbHalfEdges = 3
        /\ pc \in {"validate", "returned"} =>
              /\ boundaryEdges = 3
              /\ \A e \in HalfEdgeIds(mesh) : mesh.heTwin[e] = NoEdge
        /\ pc = "returned" => returned = mesh

\* the build of the triangle 2, 0, 1 has returned
C13_Witness ==
    /\ IsIsolatedTriangle(src)
    /\ src.faces[0].vertexIndices[0] = 2
    /\ pc = "returned"
    /\ returned.nbHalfEdges = 3
    /\ boundaryEdges = 3

\* no face lists a vertex twice
NoRepeatedVertex(s) ==
    \A k \in 0..(s.nbFaces - 1) :
        \A i, j \in 0..(s.faces[k].count - 1) :
            i # j => s.faces[k].vertexIndices[i] # s.faces[k].vertexIndices[j]

(* C14, as amended: in every mesh returned by build from a source in which *)
(* no face lists a vertex twice, the twin of a half-edge lies on another   *)
(* face: for every half-edge e with heTwin[e] # -1, heTwin[e] # e and      *)
(* heFace[heTwin[e]] # heFace[e].                                          *)
C14_TwinOnOtherFace ==
    (pc = "returned" /\ NoRepeatedVertex(src)) =>
        \A e \in HalfEdgeIds(returned) :
            LET t == returned.heTwin[e]
            IN t # NoEdge => (t # e /\ returned.heFace[t] # returned.heFace[e])

\* a returned mesh with two adjacent proper faces and a boundary
C14_Witness ==
    /\ pc = "returned"
    /\ NoRepeatedVertex(src)
    /\ returned.nbFaces >= 2
    /\ \E e \in HalfEdgeIds(returned) :
          /\ returned.heTwin[e] # NoEdge
          /\ returned.heFace[e] = 0
          /\ returned.heFace[returned.heTwin[e]] = 1
    /\ \E e \in HalfEdgeIds(returned) : returned.heTwin[e] = NoEdge

(* C14, as stated: in every mesh returned by build, for every half-edge e  *)
(* with heTwin[e] # -1, heTwin[e] # e and heFace[heTwin[e]] # heFace[e].   *)
C14_Original ==
    pc = "returned" =>
        \A e \in HalfEdgeIds(returned) :
            LET t == returned.heTwin[e]
            IN t # NoEdge => (t # e /\ returned.heFace[t] # returned.heFace[e])

(* C15: every source ObjLoader::load returns has positions, normals,       *)
(* texCoords and colors of length exactly nbVertices, for any numbers of   *)
(* v, vn and vt lines in the file.                                         *)
C15_PerVertexLengths ==
    pc = "loaded" =>
        /\ Size(src.positions) = src.nbVertices
        /\ Size(src.normals) = src.nbVertices
        /\ Size(src.texCoords) = src.nbVertices
        /\ Size(src.colors) = src.nbVertices

\* the sum of the vertex counts of the faces before face k of the source
CountsBefore(k) ==
    SumTo([f \in DOMAIN src.faces |-> Size(src.faces[f].vertexIndices)], k)

(* C16: for every face k with vertex sequence v_0 .. v_(n-1), whose first  *)
(* half-edge h is the sum of the counts of the faces 0..k-1, the face walk *)
(* creates the half-edges h, h+1, .., h+n-1 in that order, with            *)
(* origin(h+i) = v_i, heFace(h+i) = k, next(h+i) = h + ((i+1) mod n),      *)
(* prev(h+i) = h + ((i-1) mod n) and faceEdges[k] = h; the index ranges of *)
(* the faces follow one another in face order without overlap.             *)
C16_FaceWalkLayout ==
    pc \in {"twins", "validate", "returned", "failed"} =>
        /\ heWrites = [j \in 1..CountsBefore(src.nbFaces) |-> j - 1]
        /\ currentHE = CountsBefore(src.nbFaces)
        /\ \A k \in 0..(src.nbFaces - 1) :
              LET h == CountsBefore(k)
                  n == Size(src.faces[k].vertexIndices)
              IN /\ mesh.faceEdges[k] = h
                 /\ \A i \in 0..(n - 1) :
                       /\ mesh.heVertex[h + i] = src.faces[k].vertexIndices[i]
                       /\ mesh.heFace[h + i] = k
                       /\ mesh.heNext[h + i] = h + ((i + 1) % n)
                       /\ mesh.hePrev[h + i] = h + ((i + n - 1) % n)

\* the face walk is over on a quad followed by a triangle
C16_Witness ==
    /\ pc = "twins"
    /\ src.nbFaces = 2
    /\ Size(src.faces[0].vertexIndices) = 4
    /\ mesh.faceEdges[1] = 4
    /\ mesh.heNext[6] = 4
    /\ mesh.hePrev[4] = 6

\* the half-edges of build's mesh that start at vertex v
HalfEdgesFrom(v) == {e \in HalfEdgeIds(mesh) : mesh.heVertex[e] = v}

(* C17: after the face walk, vertexEdges[v] is the smallest half-edge      *)
(* index whose origin is v, for every vertex v that is the origin of at    *)
(* least one half-edge, and it stays -1 for every vertex that is the       *)
(* origin of none.                                                         *)
C17_FirstOutgoingWins ==
    pc \in {"twins", "validate", "returned", "failed"} =>
        \A v \in VertexIds(mesh) :
            IF HalfEdgesFrom(v) = {}
            THEN mesh.vertexEdges[v] = NoEdge
            ELSE /\ mesh.vertexEdges[v] \in HalfEdgesFrom(v)
                 /\ \A e \in HalfEdgesFrom(v) : mesh.vertexEdges[v] <= e

\* the face walk is over; one vertex starts several half-edges, and not
\* the first ones, and another vertex starts none
C17_Witness ==
    /\ pc = "twins"
    /\ \E v \in VertexIds(mesh) :
          /\ Cardinality(HalfEdgesFrom(v)) >= 2
          /\ mesh.vertexEdges[v] > 0
    /\ \E v \in VertexIds(mesh) : mesh.vertexEdges[v] = NoEdge

\* the half-edges of build's mesh that run against half-edge e
ReverseOf(e) ==
    {t \in HalfEdgeIds(mesh) :
        /\ Origin(mesh, t) = Destination(mesh, e)
        /\ Destination(mesh, t) = Origin(mesh, e)}

(* C18: twin resolution is last-registration-wins.  After it, heTwin[e] is *)
(* the largest half-edge index whose (origin, destination) is the reverse  *)
(* of e's, if there is such a half-edge, and -1 otherwise.                 *)
C18_LastRegistrationWins ==
    pc \in {"validate", "returned", "failed"} =>
        \A e \in HalfEdgeIds(mesh) :
            IF ReverseOf(e) = {}
            THEN mesh.heTwin[e] = NoEdge
            ELSE /\ mesh.heTwin[e] \in ReverseOf(e)
                 /\ \A t \in ReverseOf(e) : t <= mesh.heTwin[e]

\* twin resolution is over, and some half-edge had two reverse half-edges
\* to choose from
C18_Witness ==
    /\ pc = "validate"
    /\ \E e \in HalfEdgeIds(mesh) :
          /\ Cardinality(ReverseOf(e)) >= 2
          /\ \E t \in ReverseOf(e) : t < mesh.heTwin[e]

\* no directed edge whose reverse occurs too is the side of several faces
\* or several times the side of one
NoDoubledTwinEdge(s) ==
    \A sd \in Sides(s) :
        SidesAlong(s, SideTo(s, sd), SideFrom(s, sd)) # {} =>
            SidesAlong(s, SideFrom(s, sd), SideTo(s, sd)) = {sd}

(* C19, as amended: for every source in which no directed edge whose       *)
(* reverse also occurs is produced by more than one half-edge, twin        *)
(* resolution establishes symmetric assignment by itself: before the       *)
(* validator runs, for every half-edge e whose twin was set to t, the twin *)
(* of t was set to e.                                                      *)
C19_SymmetricByItself ==
    (pc = "validate" /\ NoDoubledTwinEdge(src)) =>
        \A e \in HalfEdgeIds(mesh) :
            mesh.heTwin[e] # NoEdge => mesh.heTwin[mesh.heTwin[e]] = e

\* twin resolution is over on a source without doubled edges, with twins
\* and with boundary half-edges
C19_Witness ==
    /\ pc = "validate"
    /\ NoDoubledTwinEdge(src)
    /\ \E e \in HalfEdgeIds(mesh) : mesh.heTwin[e] > e
    /\ \E e \in HalfEdgeIds(mesh) : mesh.heTwin[e] = NoEdge

(* C19, as stated: for every source, at the end of twin resolution, for    *)
(* every half-edge e whose twin was set to t, the twin of t was set to e.  *)
C19_Original ==
    pc = "validate" =>
        \A e \in HalfEdgeIds(mesh) :
            mesh.heTwin[e] # NoEdge => mesh.heTwin[mesh.heTwin[e]] = e

(* C20: the boundary-edge count of build is the number of half-edges whose *)
(* heTwin is -1 after twin resolution, which is the number of half-edges   *)
(* (v0, v1) for which no half-edge (v1, v0) exists; and heTwin is written  *)
(* only where the reverse directed edge is found.                          *)
C20_BoundaryCount ==
    /\ pc \in {"start", "walk", "twins"} => boundaryEdges = 0
    /\ pc \in {"walk", "twins"} =>
          \A e \in HalfEdgeIds(mesh) : mesh.heTwin[e] = NoEdge
    /\ pc \in {"validate", "returned", "failed"} =>
          /\ boundaryEdges =
                Cardinality({e \in HalfEdgeIds(mesh) : mesh.heTwin[e] = NoEdge})
          /\ boundaryEdges =
                Cardinality({e \in HalfEdgeIds(mesh) : ReverseOf(e) = {}})
          /\ \A e \in HalfEdgeIds(mesh) :
                mesh.heTwin[e] # NoEdge => ReverseOf(e) # {}

\* twin resolution is over on a mesh with twins and with boundary
\* half-edges
C20_Witness ==
    /\ pc = "validate"
    /\ boundaryEdges >= 2
    /\ boundaryEdges < mesh.nbHalfEdges

Least(S) == CHOOSE x \in S : \A y \in S : x <= y

\* the walk from the representative of face f: the half-edge after k steps
WalkAt(m, f, k) == NextTimes(m, m.faceEdges[f], k)

\* the steps of that walk that leave a half-edge e with prev(next(e)) # e
BrokenSteps(m, f) ==
    {k \in 0..m.nbHalfEdges :
        LET e == WalkAt(m, f, k) IN m.hePrev[m.heNext[e]] # e}

\* the numbers of steps, up to nbHalfEdges, after which it is back at its
\* start
ClosingSteps(m, f) ==
    {k \in 1..m.nbHalfEdges : WalkAt(m, f, k) = m.faceEdges[f]}

\* what the loop closure pass has to say about face f
FaceOutcome(m, f) ==
    LET broken == BrokenSteps(m, f)
        closing == ClosingSteps(m, f)
    IN IF closing = {}
       THEN "LoopBroken"
       ELSE IF \E k \in broken : k < Least(closing)
       THEN "LoopBroken"
       ELSE IF Least(closing) # m.faceVertCounts[f]
       THEN "LoopLengthMismatch"
       ELSE "ok"

BadFaces(m) == {f \in FaceIds(m) : FaceOutcome(m, f) # "ok"}

(* C22: the loop closure pass takes the faces in index order and walks     *)
(* each from faceEdges[f].  It fails with LoopBroken as soon as a step has *)
(* prev(next(e)) # e or the walk has taken more than nbHalfEdges steps     *)
(* without returning to its start, fails with LoopLengthMismatch when the  *)
(* walk closes after a number of steps other than faceVertCounts[f], and   *)
(* accepts a face exactly when the walk closes after faceVertCounts[f]     *)
(* steps with prev(next(e)) = e at every step.                             *)
C22_LoopClosurePass ==
    pc = "validated" =>
        LET outcome == [f \in FaceIds(mesh) |-> FaceOutcome(mesh, f)]
            bad == {f \in FaceIds(mesh) : outcome[f] # "ok"}
        IN /\ \A f \in FaceIds(mesh) : CheckFace(mesh, f).kind = outcome[f]
           /\ \A f \in FaceIds(mesh) :
                 outcome[f] = "ok" <=>
                    /\ WalkAt(mesh, f, mesh.faceVertCounts[f])
                          = mesh.faceEdges[f]
                    /\ \A k \in 1..(mesh.faceVertCounts[f] - 1) :
                          WalkAt(mesh, f, k) # mesh.faceEdges[f]
                    /\ \A k \in 0..(mesh.faceVertCounts[f] - 1) :
                          LET e == WalkAt(mesh, f, k)
                          IN mesh.hePrev[mesh.heNext[e]] = e
           /\ IF bad = {}
              THEN verdict.kind \notin {"LoopBroken", "LoopLengthMismatch"}
              ELSE /\ verdict.kind = outcome[Least(bad)]
                   /\ verdict.at = Least(bad)

\* the validator has passed face 0 and rejected face 1 for its length
C22_Witness ==
    /\ pc = "validated"
    /\ verdict.kind = "LoopLengthMismatch"
    /\ verdict.at = 1
    /\ verdict.n < mesh.faceVertCounts[1]

\* the half-edges with a twin whose twin is not them
NotMutual(m) ==
    {e \in HalfEdgeIds(m) :
        m.heTwin[e] # NoEdge /\ m.heTwin[m.heTwin[e]] # e}

\* the half-edges with a twin that does not run exactly against them
NotReversed(m) ==
    {e \in HalfEdgeIds(m) :
        /\ m.heTwin[e] # NoEdge
        /\ <<Origin(m, e), Destination(m, e)>>
               # <<Destination(m, m.heTwin[e]), Origin(m, m.heTwin[e])>>}

TwinViolations(m) == Cardinality(NotMutual(m)) + Cardinality(NotReversed(m))

(* C23: the twin symmetry pass inspects every half-edge before it decides, *)
(* and fails with TwinAsymmetryError iff the accumulated count is nonzero; *)
(* the count it reports is the number of half-edges e with a twin for      *)
(* which twin(twin(e)) # e plus the number of half-edges with a twin whose *)
(* (origin, destination) is not the exact reverse of the twin's.           *)
C23_TwinSymmetryPass ==
    (pc = "validated" /\ BadFaces(mesh) = {}) =>
        /\ verdict.kind = "TwinAsymmetryError" <=> TwinViolations(mesh) > 0
        /\ verdict.kind = "TwinAsymmetryError" =>
              verdict.n = TwinViolations(mesh)

\* the pass has counted a half-edge that fails the direction test after one
\* that fails the mutuality test
C23_Witness ==
    /\ pc = "validated"
    /\ verdict.kind = "TwinAsymmetryError"
    /\ verdict.n >= 2
    /\ \E e \in NotMutual(mesh) : \E t \in NotReversed(mesh) : e < t

\* the vertices without a recorded half-edge, and those whose recorded
\* half-edge starts elsewhere
Dangling(m) == {v \in VertexIds(m) : m.vertexEdges[v] = NoEdge}

WrongOrigin(m) ==
    {v \in VertexIds(m) :
        m.vertexEdges[v] # NoEdge /\ m.heVertex[m.vertexEdges[v]] # v}

(* C24: the vertex outgoing-edge pass fails with DanglingVertex for the    *)
(* lowest-index vertex v with vertexEdges[v] = -1, fails with              *)
(* WrongOriginVertex for the lowest-index vertex whose recorded half-edge  *)
(* has heVertex # v, whichever of the two vertices comes first, and        *)
(* accepts exactly when every vertex has a recorded half-edge that         *)
(* originates at it.                                                       *)
C24_VertexPass ==
    (pc = "validated" /\ BadFaces(mesh) = {} /\ TwinViolations(mesh) = 0) =>
        /\ verdict.kind = "ok" <=>
              \A v \in VertexIds(mesh) :
                  /\ mesh.vertexEdges[v] # NoEdge
                  /\ mesh.heVertex[mesh.vertexEdges[v]] = v
        /\ verdict.kind # "ok" =>
              /\ verdict.at = Least(Dangling(mesh) \cup WrongOrigin(mesh))
              /\ verdict.kind = IF verdict.at \in Dangling(mesh)
                                THEN "DanglingVertex"
                                ELSE "WrongOriginVertex"
        /\ verdict.kind = "DanglingVertex" =>
              verdict.at = Least(Dangling(mesh))
        /\ verdict.kind = "WrongOriginVertex" =>
              verdict.at = Least(WrongOrigin(mesh))

\* the pass has passed vertex 0 and rejected vertex 1 for its origin,
\* before a vertex without a half-edge
C24_Witness ==
    /\ pc = "validated"
    /\ verdict.kind = "WrongOriginVertex"
    /\ verdict.at = 1
    /\ verdict.passes = <<"loops", "twins">>

\* every face has a count of at least 3 that is the length of its vertex
\* list, and every vertex index is one of the source's vertices
WellFormed(s) ==
    \A k \in 0..(s.nbFaces - 1) :
        /\ s.faces[k].count >= MinFaceVerts
        /\ s.faces[k].count = Size(s.faces[k].vertexIndices)
        /\ \A i \in DOMAIN s.faces[k].vertexIndices :
              s.faces[k].vertexIndices[i] \in 0..(s.nbVertices - 1)

(* C25: for a well-formed source, build returns a mesh if and only if (a)  *)
(* every vertex index in [0, nbVertices) occurs in at least one face and   *)
(* (b) no directed edge (u, v) whose reverse (v, u) also occurs in the     *)
(* source is produced by more than one half-edge; when (b) fails the error *)
(* is TwinAsymmetryError, and when (b) holds but (a) fails the error is    *)
(* DanglingVertex.                                                         *)
C25_WellFormedBuild ==
    (pc \in {"returned", "failed"} /\ WellFormed(src)) =>
        LET a == UsedVertices(src) = 0..(src.nbVertices - 1)
            b == NoDoubledTwinEdge(src)
        IN /\ pc = "returned" <=> (a /\ b)
           /\ pc = "returned" => returned = mesh /\ thrown = NoError
           /\ ~b => pc = "failed" /\ thrown.kind = "TwinAsymmetryError"
           /\ (b /\ ~a) => pc = "failed" /\ thrown.kind = "DanglingVertex"

\* build has failed on a source that pairs some half-edges, doubles no
\* paired edge and leaves a vertex other than the first out of its faces
C25_Witness ==
    /\ pc = "failed"
    /\ WellFormed(src)
    /\ NoDoubledTwinEdge(src)
    /\ \E e \in HalfEdgeIds(mesh) : mesh.heTwin[e] # NoEdge
    /\ 0 \in UsedVertices(src)
    /\ thrown.kind = "DanglingVertex"

\* the half-edges the loop closure pass visits: those some face's
\* representative reaches by next
Reachable(m) ==
    {NextTimes(m, m.faceEdges[f], k) :
        f \in FaceIds(m), k \in 0..(m.nbHalfEdges - 1)}

(* C26, as amended: for every mesh whose index tables are in range and     *)
(* that validateTopology accepts, prev(next(e)) = e and next(prev(e)) = e  *)
(* hold for every half-edge e that is reachable from some face's           *)
(* representative half-edge by next.                                       *)
C26_SoundOnReachable ==
    (pc = "validated" /\ verdict.kind = "ok") =>
        \A e \in Reachable(mesh) :
            /\ mesh.hePrev[mesh.heNext[e]] = e
            /\ mesh.heNext[mesh.hePrev[e]] = e

\* the validator has accepted tables with a face loop of several
\* half-edges and a half-edge outside every face loop
C26_Witness ==
    /\ pc = "validated"
    /\ verdict.kind = "ok"
    /\ Cardinality(Reachable(mesh)) >= 2
    /\ HalfEdgeIds(mesh) \ Reachable(mesh) # {}

(* C26, as stated: for every mesh whose index tables are in range and that *)
(* validateTopology accepts, prev(next(e)) = e and next(prev(e)) = e hold  *)
(* for every half-edge e, reachable from a face's representative or not.   *)
C26_Original ==
    (pc = "validated" /\ verdict.kind = "ok") =>
        \A e \in HalfEdgeIds(mesh) :
            /\ mesh.hePrev[mesh.heNext[e]] = e
            /\ mesh.heNext[mesh.hePrev[e]] = e

(* C27: the step-limit failure ("infinite loop in face") of the loop       *)
(* closure pass is unreachable: for every mesh whose heNext, hePrev and    *)
(* faceEdges entries are in range, each face walk either fails the         *)
(* prev(next(e)) = e check or returns to its start within nbHalfEdges      *)
(* steps, so the validator never raises the step-limit error.              *)
C27_NoStepLimit ==
    pc = "validated" =>
        /\ verdict.why # "infinite loop"
        /\ \A f \in FaceIds(mesh) :
              /\ CheckFace(mesh, f).why # "infinite loop"
              /\ \/ ClosingSteps(mesh, f) # {}
                 \/ \E k \in BrokenSteps(mesh, f) : k < mesh.nbHalfEdges

\* a walk that never comes back to its start has been stopped by the
\* prev(next(e)) check after at least two steps
C27_Witness ==
    /\ pc = "validated"
    /\ verdict.why = "prev(next(e)) != e"
    /\ verdict.n >= 2
    /\ ClosingSteps(mesh, verdict.at) = {}

(* C28: the validator's passes run in the fixed order loop closure, twin   *)
(* symmetry, vertex outgoing-edge, and the first failing pass determines   *)
(* the reported error: a mesh that violates several invariants at once is  *)
(* reported with the loop error of its lowest-index offending face if any  *)
(* face loop is bad, otherwise with TwinAsymmetryError if any twin check   *)
(* fails, otherwise with the vertex error; no pass runs after a failure.   *)
C28_PassOrder ==
    pc = "validated" =>
        LET bad == BadFaces(mesh)
        IN IF bad # {}
           THEN /\ verdict.kind \in {"LoopBroken", "LoopLengthMismatch"}
                /\ verdict.at = Least(bad)
                /\ verdict.passes = <<>>
           ELSE IF TwinViolations(mesh) > 0
           THEN /\ verdict.kind = "TwinAsymmetryError"
                /\ verdict.passes = <<"loops">>
           ELSE IF Dangling(mesh) \cup WrongOrigin(mesh) # {}
           THEN /\ verdict.kind \in {"DanglingVertex", "WrongOriginVertex"}
                /\ verdict.passes = <<"loops", "twins">>
           ELSE /\ verdict.kind = "ok"
                /\ verdict.passes = AllPasses

\* tables with a bad face loop, a bad twin and a bad vertex at once have
\* been reported with the loop error
C28_Witness ==
    /\ pc = "validated"
    /\ BadFaces(mesh) # {}
    /\ TwinViolations(mesh) > 0
    /\ Dangling(mesh) \cup WrongOrigin(mesh) # {}
    /\ verdict.kind \in {"LoopBroken", "LoopLengthMismatch"}
    /\ verdict.passes = <<>>

\* the offsets of the faces are the running sum of their counts and the
\* flattened index buffer is their vertex lists, one after the other
LoaderForm(s) ==
    /\ \A k \in DOMAIN s.faces :
          s.faces[k].offset =
              SumTo([j \in DOMAIN s.faces |-> s.faces[j].count], k)
    /\ s.faceVertexIndices =
          Flatten([k \in DOMAIN s.faces |-> s.faces[k].vertexIndices])

\* every face has at least 3 vertices and a count that is the length of
\* its vertex list, and the buffer is as long as the counts together
LoaderFaces(s) ==
    /\ \A k \in DOMAIN s.faces :
          /\ Size(s.faces[k].vertexIndices) >= MinFaceVerts
          /\ s.faces[k].count = Size(s.faces[k].vertexIndices)
    /\ Size(s.faceVertexIndices) =
          SumTo([j \in DOMAIN s.faces |-> s.faces[j].count], Size(s.faces))

(* C29: every source produced by ObjLoader::load has only faces with at    *)
(* least 3 vertices (face lines with fewer are skipped without advancing   *)
(* the running offset, which stays the sum of the counts of the faces      *)
(* emitted), each face's offset equals the sum of the counts of the faces  *)
(* emitted before it, each face's count equals the length of its vertex    *)
(* list, and faceVertexIndices is the concatenation of the emitted faces'  *)
(* vertex lists, so its length equals the sum of the counts.               *)
C29_LoaderFaces ==
    /\ pc = "read" =>
          /\ LoaderForm(loading.mesh)
          /\ LoaderFaces(loading.mesh)
          /\ loading.faceVertexOffset = Size(loading.mesh.faceVertexIndices)
    /\ pc = "loaded" =>
          /\ LoaderForm(src)
          /\ LoaderFaces(src)
          /\ src.nbFaces = Size(src.faces)

\* load has returned a source of two faces from a file that also held a
\* face line of fewer than 3 vertices
C29_Witness ==
    /\ pc = "loaded"
    /\ file.shortFaceRead
    /\ src.nbFaces = 2
    /\ src.faces[1].offset = src.faces[0].count

(* C30: for a source whose face offsets are the running sum of the face   *)
(* counts and whose flattened index buffer is the concatenation of the     *)
(* faces' vertex lists, the built mesh's half-edge index space coincides   *)
(* with the flattened buffer: faceEdges[f] = faceOffsets[f] for every face *)
(* f, and heVertex[k] = vertexFaceIndices[k] for every k in                *)
(* [0, nbHalfEdges).                                                       *)
C30_HalfEdgesAreBufferSlots ==
    (pc \in {"twins", "validate", "returned", "failed"} /\ LoaderForm(src)) =>
        /\ \A f \in FaceIds(mesh) : mesh.faceEdges[f] = mesh.faceOffsets[f]
        /\ DOMAIN mesh.vertexFaceIndices = HalfEdgeIds(mesh)
        /\ \A k \in HalfEdgeIds(mesh) :
              mesh.heVertex[k] = mesh.vertexFaceIndices[k]

\* build has returned a mesh of a quad and a triangle, in which the
\* triangle starts at slot 4 of the buffer
C30_Witness ==
    /\ pc = "returned"
    /\ LoaderForm(src)
    /\ mesh.nbFaces = 2
    /\ mesh.faceOffsets[1] = 4
    /\ mesh.faceEdges[1] = 4
    /\ mesh.nbHalfEdges = 7
    /\ mesh.heVertex[6] = mesh.vertexFaceIndices[6]

=============================================================================
